---------------------------- MODULE Spec2Model ----------------------------
(***************************************************************************)
(* Mirror availability check of src/utils.py: mirror_available() builds   *)
(* the set of repomd.xml URLs a mirror has to serve, starts one            *)
(* is_url_available() task per URL and aggregates their results in         *)
(* _check_tasks(), cancelling what is still pending on the first failure.  *)
(*                                                                         *)
(* Strings the code takes apart are kept as sequences of pieces: a version *)
(* is a sequence of tokens ("9", "-", "beta"), a path is the sequence of   *)
(* its "/"-separated segments (what str.split("/") returns), a URL is a    *)
(* record of its origin (scheme://host) and its path segments.             *)
(***************************************************************************)
EXTENDS Naturals, Sequences, FiniteSets, TLC

VARIABLES
    mirror_info,        \* the MirrorData argument
    main_config,        \* the MainConfig argument
    pc,                 \* where mirror_available() stands
    mirror_url,         \* the selected base address (NoUrl before selection)
    urls_for_checking,  \* dict: URL -> [version, repo_path]
    tasks,              \* URL -> state of the is_url_available() task:
                        \* "pending", "true"/"false" (returned), "cancelling"
                        \* (cancel() called), "cancelled" (returned False)
    created_tasks,      \* argument of the current _check_tasks() call
    rounds,             \* number of _check_tasks() calls made
    result              \* the returned tuple (NoResult before the return)

vars == <<mirror_info, main_config, pc, mirror_url, urls_for_checking,
          tasks, created_tasks, rounds, result>>

-----------------------------------------------------------------------------
(* Bounds of the explored inputs *)

MaxProbes == 5

MaxUrls == 2

MaxVersions == 3

MaxRepos == 2

-----------------------------------------------------------------------------
(* Generic helpers for Python lists and dicts *)

InList(x, s) == \E i \in 1..Len(s) : s[i] = x

Elems(s) == {s[i] : i \in 1..Len(s)}

EmptyDict == <<>>

DictSet(d, k, v) == [x \in (DOMAIN d) \cup {k} |-> IF x = k THEN v ELSE d[x]]

Min(S) == CHOOSE x \in S : \A y \in S : x <= y

\* order-preserving sub-lists of pool with at most n elements
RECURSIVE SubLists(_, _)
SubLists(pool, n) ==
    IF pool = <<>> \/ n = 0 THEN {<<>>}
    ELSE SubLists(Tail(pool), n) \cup
         {<<Head(pool)>> \o s : s \in SubLists(Tail(pool), n - 1)}

\* lists without repetition over the set S with at most n elements
RECURSIVE InjSeqs(_, _)
InjSeqs(S, n) ==
    IF n = 0 THEN {<<>>}
    ELSE LET shorter == InjSeqs(S, n - 1)
         IN  shorter \cup
             UNION {{Append(s, x) : x \in S \ Elems(s)} : s \in shorter}

Prefix(s, n) == SubSeq(s, 1, IF n < Len(s) THEN n ELSE Len(s))

-----------------------------------------------------------------------------
(* Strings *)

\* str(version): the tokens of a version written one after the other
RECURSIVE StrOf(_)
StrOf(tokens) ==
    IF tokens = <<>> THEN "" ELSE Head(tokens) \o StrOf(Tail(tokens))

\* 'beta' in version
ContainsBeta(version) == InList("beta", version)

\* repo_data.path.replace('$basearch', arch)
ReplaceBasearch(path, arch) ==
    [i \in 1..Len(path) |-> IF path[i] = "$basearch" THEN arch ELSE path[i]]

\* segments[1:-1] = filter(None, segments[1:-1])
FilterInner(segments) ==
    IF Len(segments) <= 2 THEN segments
    ELSE <<segments[1]>>
         \o SelectSeq(SubSeq(segments, 2, Len(segments) - 1),
                      LAMBDA seg : seg # "")
         \o <<segments[Len(segments)]>>

\* the loop of urljoin that removes "." and ".." segments
RECURSIVE ResolveDots(_, _)
ResolveDots(segments, resolved_path) ==
    IF segments = <<>> THEN resolved_path
    ELSE LET seg == Head(segments)
         IN  IF seg = ".."
             THEN ResolveDots(Tail(segments),
                              IF resolved_path = <<>> THEN <<>>
                              ELSE SubSeq(resolved_path, 1,
                                          Len(resolved_path) - 1))
             ELSE IF seg = "."
             THEN ResolveDots(Tail(segments), resolved_path)
             ELSE ResolveDots(Tail(segments), Append(resolved_path, seg))

\* urllib.parse.urljoin(base, path) for a path without scheme, host or query
UrlJoin(base, path) ==
    IF path = <<"">> THEN base
    ELSE LET base_parts ==
                 IF base.path[Len(base.path)] # ""
                 THEN SubSeq(base.path, 1, Len(base.path) - 1)
                 ELSE base.path
             segments ==
                 IF path[1] = "" THEN path
                 ELSE FilterInner(base_parts \o path)
             resolved_path == ResolveDots(segments, <<>>)
             closed ==
                 IF segments[Len(segments)] \in {".", ".."}
                 THEN Append(resolved_path, "")
                 ELSE resolved_path
         IN  [origin |-> base.origin,
              path   |-> IF closed = <<>> \/ closed = <<"">>
                         THEN <<"", "">> ELSE closed]

\* url + '/'
AddSlash(url) == [origin |-> url.origin, path |-> Append(url.path, "")]

\* lines 542-551: the URL of repomd.xml for one version and repo path
UrlForCheck(base, version, repo_path) ==
    UrlJoin(AddSlash(UrlJoin(AddSlash(UrlJoin(AddSlash(base),
                                              <<StrOf(version)>>)),
                             repo_path)),
            <<"repodata", "repomd.xml">>)

-----------------------------------------------------------------------------
(* Static tables *)

AzureArches == <<"x86_64", "aarch64">>

AzureRepos ==
    <<"AppStream", "BaseOS", "HighAvailability", "NFV", "PowerTools", "RT",
      "ResilientStorage", "devel", "extras", "plus">>

WHITELIST_MIRRORS_PER_ARCH_REPO ==
    [name \in {"eastus.azure.repo.almalinux.org",
               "germanywestcentral.azure.repo.almalinux.org",
               "southeastasia.azure.repo.almalinux.org",
               "westus2.azure.repo.almalinux.org"}
        |-> [arches |-> AzureArches, repos |-> AzureRepos]]

-----------------------------------------------------------------------------
(* The enumeration of the URLs to check, lines 510-555 *)

\* lines 446-459
GetArchesForVersion(repo_arches, global_arches) ==
    IF repo_arches # <<>> THEN repo_arches ELSE global_arches

\* lines 462-472
IsPermittedArchForThisVersionAndRepo(version, arch, versions_arches) ==
    IF version \notin DOMAIN versions_arches THEN TRUE
    ELSE IF version \in DOMAIN versions_arches
            /\ InList(arch, versions_arches[version]) THEN TRUE
    ELSE FALSE

\* mutant: beta versions are skipped for every mirror, cloud or not
SkipBetaEverywhere(mirror, version) == ContainsBeta(version)

\* lines 513-514
SkipBetaOnCloud(mirror, version) ==
    mirror.cloud_type # "" /\ ContainsBeta(version)

\* lines 516-517
SkipDuplicatedVersion(config, version) ==
    version \in DOMAIN config.duplicated_versions

\* lines 519-521
SkipRepoByWhitelist(mirror, repo_data) ==
    /\ mirror.name \in DOMAIN WHITELIST_MIRRORS_PER_ARCH_REPO
    /\ ~InList(repo_data.name,
               WHITELIST_MIRRORS_PER_ARCH_REPO[mirror.name].repos)

\* mutant: the override's arches are not consulted
SkipArchNever(mirror, arch) == FALSE

\* lines 532-534
SkipArchByWhitelist(mirror, arch) ==
    /\ mirror.name \in DOMAIN WHITELIST_MIRRORS_PER_ARCH_REPO
    /\ ~InList(arch, WHITELIST_MIRRORS_PER_ARCH_REPO[mirror.name].arches)

\* lines 522-523
SkipVaultRepo(repo_data) == repo_data.vault

\* lines 528-530
SkipRepoForVersion(repo_data, version) ==
    repo_data.versions # <<>> /\ ~InList(version, repo_data.versions)

\* lines 531-555: for arch in arches
RECURSIVE ArchLoop(_, _, _, _, _, _, _, _)
ArchLoop(acc, mirror, config, base, version, repo_data, arches, i) ==
    IF i > Len(arches) THEN acc
    ELSE LET arch == arches[i]
             repo_path == ReplaceBasearch(repo_data.path, arch)
             url_for_check == UrlForCheck(base, version, repo_path)
             next ==
                 IF SkipArchByWhitelist(mirror, arch) THEN acc
                 ELSE IF ~IsPermittedArchForThisVersionAndRepo(
                              version, arch, config.versions_arches) THEN acc
                 ELSE DictSet(acc, url_for_check,
                              [version |-> version, repo_path |-> repo_path])
         IN  ArchLoop(next, mirror, config, base, version, repo_data,
                      arches, i + 1)

\* lines 518-555: for repo_data in main_config.repos
RECURSIVE RepoLoop(_, _, _, _, _, _)
RepoLoop(acc, mirror, config, base, version, j) ==
    IF j > Len(config.repos) THEN acc
    ELSE LET repo_data == config.repos[j]
             arches == GetArchesForVersion(repo_data.arches, config.arches)
             next ==
                 IF SkipRepoByWhitelist(mirror, repo_data) THEN acc
                 ELSE IF SkipVaultRepo(repo_data) THEN acc
                 ELSE IF SkipRepoForVersion(repo_data, version) THEN acc
                 ELSE ArchLoop(acc, mirror, config, base, version, repo_data,
                               arches, 1)
         IN  RepoLoop(next, mirror, config, base, version, j + 1)

\* lines 510-555: for version in main_config.versions
RECURSIVE VersionLoop(_, _, _, _, _)
VersionLoop(acc, mirror, config, base, k) ==
    IF k > Len(config.versions) THEN acc
    ELSE LET version == config.versions[k]
             next ==
                 IF SkipBetaOnCloud(mirror, version) THEN acc
                 ELSE IF SkipDuplicatedVersion(config, version) THEN acc
                 ELSE RepoLoop(acc, mirror, config, base, version, 1)
         IN  VersionLoop(next, mirror, config, base, k + 1)

UrlsForChecking(mirror, config, base) ==
    VersionLoop(EmptyDict, mirror, config, base, 1)

-----------------------------------------------------------------------------
(* The base address, lines 497-509 *)

\* mutant: the first address is taken whatever its protocol
NextAddressAnyProtocol(urls, required_protocols) ==
    IF urls = <<>> THEN <<>> ELSE <<Head(urls).address>>

\* mutant: the scan follows required_protocols instead of the mirror's urls
RECURSIVE NextAddressByPreference(_, _)
NextAddressByPreference(urls, required_protocols) ==
    IF required_protocols = <<>> THEN <<>>
    ELSE LET items == SelectSeq(urls, LAMBDA item :
                          item.protocol = Head(required_protocols))
         IN  IF items # <<>> THEN <<items[1].address>>
             ELSE NextAddressByPreference(urls, Tail(required_protocols))

\* next(address for protocol_type, address in urls.items()
\*      if protocol_type in required_protocols); <<>> stands for StopIteration
RECURSIVE NextAddress(_, _)
NextAddress(urls, required_protocols) ==
    IF urls = <<>> THEN <<>>
    ELSE IF InList(Head(urls).protocol, required_protocols)
    THEN <<Head(urls).address>>
    ELSE NextAddress(Tail(urls), required_protocols)

-----------------------------------------------------------------------------
(* The explored inputs *)

MirrorNames == {"eastus.azure.repo.almalinux.org", "mirror.example.org"}

Protocols == {"https", "http", "rsync"}

AddressOf(protocol) ==
    [origin |-> protocol \o "://mirror.example.org", path |-> <<"", "almalinux">>]

\* urls as an insertion-ordered dict: a list of (protocol, address) items
UrlDicts(protocolLists) ==
    {[i \in 1..Len(ps) |-> [protocol |-> ps[i], address |-> AddressOf(ps[i])]]
        : ps \in protocolLists}

Mirrors(urlDicts) ==
    [name : MirrorNames, private : BOOLEAN, cloud_type : {"", "azure"},
     urls : urlDicts]

V8 == <<"8">>

V9Beta == <<"9", "-", "beta">>

V810 == <<"8", ".", "10">>

V9 == <<"9">>

VersionPool == <<V8, V9Beta, V810, V9>>

ArchPool ==
    <<"x86_64", "aarch64", "ppc64le", "s390x", "i686", "riscv64", "armhfp">>

BaseOS ==
    [name |-> "BaseOS", path |-> <<"BaseOS", "$basearch", "os">>,
     arches |-> <<>>, versions |-> <<>>, vault |-> FALSE]

CRB ==
    [name |-> "CRB", path |-> <<"CRB", "$basearch", "os">>,
     arches |-> <<>>, versions |-> <<>>, vault |-> FALSE]

Devel ==
    [name |-> "devel", path |-> <<"devel", "os">>,
     arches |-> <<>>, versions |-> <<>>, vault |-> FALSE]

NFV ==
    [name |-> "NFV", path |-> <<"NFV", "$basearch", "os">>,
     arches |-> <<"x86_64", "ppc64le">>, versions |-> <<V8>>, vault |-> FALSE]

Plus ==
    [name |-> "plus", path |-> <<"vault", "plus", "$basearch", "os">>,
     arches |-> <<>>, versions |-> <<>>, vault |-> TRUE]

RepoPool == <<BaseOS, CRB, Devel, NFV, Plus>>

\* lines 209-220: process_main_config rejects a repo whose arches or
\* versions are not in the main lists
ValidConfig(config) ==
    \A j \in 1..Len(config.repos) :
        /\ Elems(config.repos[j].arches) \subseteq Elems(config.arches)
        /\ Elems(config.repos[j].versions) \subseteq Elems(config.versions)

\* configurations that exercise every filter of the enumeration
EnumConfigs ==
    [versions            : SubLists(VersionPool, MaxVersions),
     duplicated_versions : {EmptyDict, [v \in {V810} |-> V8]},
     versions_arches     : {EmptyDict, [v \in {V8} |-> <<"x86_64">>]},
     arches              : {<<>>, Prefix(ArchPool, 3)},
     required_protocols  : {<<"https", "http">>},
     repos               : SubLists(RepoPool, MaxRepos)]

\* configurations that yield 0..MaxProbes URLs: one version, one repo, k arches
ProbeConfigs ==
    [versions            : {<<V8>>},
     duplicated_versions : {EmptyDict},
     versions_arches     : {EmptyDict},
     arches              : {Prefix(ArchPool, k) : k \in 0..MaxProbes},
     required_protocols  : {<<"https", "http">>},
     repos               : {<<>>, <<BaseOS>>}]

-----------------------------------------------------------------------------
(* mirror_available, lines 475-608 *)

NoUrl == [origin |-> "", path |-> <<>>]

NoResult == <<>>

Start(mirrors, configs) ==
    /\ mirror_info \in mirrors
    /\ main_config \in {c \in configs : ValidConfig(c)}
    /\ pc = "start"
    /\ mirror_url = NoUrl
    /\ urls_for_checking = EmptyDict
    /\ tasks = EmptyDict
    /\ created_tasks = {}
    /\ rounds = 0
    /\ result = NoResult

Init == Start(Mirrors(UrlDicts(InjSeqs(Protocols, 1))), ProbeConfigs)

EnumInit == Start(Mirrors(UrlDicts(InjSeqs(Protocols, MaxUrls))), EnumConfigs)

\* mutant: the private flag is ignored
NeverPrivate(mirror) == FALSE

\* line 491
IsPrivate(mirror) == mirror.private

\* lines 491-496: a private mirror is reported available without a check
PrivateMirror ==
    /\ pc = "start"
    /\ IsPrivate(mirror_info)
    /\ pc' = "done"
    /\ result' = <<mirror_info.name, TRUE>>
    /\ UNCHANGED <<mirror_info, main_config, mirror_url, urls_for_checking,
                   tasks, created_tasks, rounds>>

\* lines 497-502: the base address is found
SelectMirrorUrl ==
    /\ pc = "start"
    /\ ~IsPrivate(mirror_info)
    /\ LET found == NextAddress(mirror_info.urls,
                                main_config.required_protocols)
       IN  /\ found # <<>>
           /\ mirror_url' = found[1]
    /\ pc' = "enumerate"
    /\ UNCHANGED <<mirror_info, main_config, urls_for_checking, tasks,
                   created_tasks, rounds, result>>

\* lines 503-509: StopIteration, no address with a required protocol
NoRequiredProtocol ==
    /\ pc = "start"
    /\ ~IsPrivate(mirror_info)
    /\ NextAddress(mirror_info.urls, main_config.required_protocols) = <<>>
    /\ pc' = "done"
    /\ result' = <<mirror_info.name, FALSE>>
    /\ UNCHANGED <<mirror_info, main_config, mirror_url, urls_for_checking,
                   tasks, created_tasks, rounds>>

\* lines 510-555
Enumerate ==
    /\ pc = "enumerate"
    /\ urls_for_checking' =
           UrlsForChecking(mirror_info, main_config, mirror_url)
    /\ pc' = "launch"
    /\ UNCHANGED <<mirror_info, main_config, mirror_url, tasks,
                   created_tasks, rounds, result>>

\* lines 565-580: one task per key of urls_for_checking
CreateTasks(urls) == [u \in DOMAIN urls |-> "pending"]

\* asyncio.wait raises ValueError for an empty set of tasks (line 585)
WaitRaises(created) == created = {}

\* lines 565-588 and 600: the tasks are created and _check_tasks(tasks) is
\* entered, up to its await of asyncio.wait
LaunchProbes ==
    /\ pc = "launch"
    /\ tasks' = CreateTasks(urls_for_checking)
    /\ created_tasks' = DOMAIN tasks'
    /\ rounds' = 1
    /\ pc' = IF WaitRaises(created_tasks') THEN "raised" ELSE "wait"
    /\ UNCHANGED <<mirror_info, main_config, mirror_url, urls_for_checking,
                   result>>

\* lines 136-162: the request of a pending task ends; True if the URL
\* answered, False on a timeout or an HTTP, client or decoding error
\* (the network decides which)
ProbeCompletes ==
    /\ \E u \in DOMAIN tasks, answered \in BOOLEAN :
          /\ tasks[u] = "pending"
          /\ tasks' = [tasks EXCEPT ![u] =
                          IF answered THEN "true" ELSE "false"]
    /\ UNCHANGED <<mirror_info, main_config, pc, mirror_url,
                   urls_for_checking, created_tasks, rounds, result>>

\* lines 163-164: a cancelled task catches CancelledError and returns False
ProbeCancelled ==
    /\ \E u \in DOMAIN tasks :
          /\ tasks[u] = "cancelling"
          /\ tasks' = [tasks EXCEPT ![u] = "cancelled"]
    /\ UNCHANGED <<mirror_info, main_config, pc, mirror_url,
                   urls_for_checking, created_tasks, rounds, result>>

\* the tasks asyncio.wait reports done (line 585)
DoneTasks(t, created) ==
    {u \in created : t[u] \in {"true", "false", "cancelled"}}

\* mutant: the wave fails only if all of its tasks failed
AllFailed(t, done) == \A u \in done : t[u] # "true"

\* lines 589-590: some done task's result is false
AnyFailed(t, done) == \E u \in done : t[u] # "true"

\* mutant: the pending tasks are left running
CancelNothing(t, pending) == t

\* lines 591-592: pending_task.cancel() for every pending task
CancelPending(t, pending) ==
    [u \in DOMAIN t |-> IF u \in pending THEN "cancelling" ELSE t[u]]

\* mutant: the first wave of successes is taken for all of them
NonePendingAlways(pending) == TRUE

\* mutant: the recursion never stops on an empty remainder
NonePendingNever(pending) == FALSE

\* line 594: not pending_tasks
NonePending(pending) == pending = {}

\* lines 585-608: asyncio.wait returns with at least one task done, and
\* _check_tasks runs on to its return or to the wait of the next call
CheckTasks ==
    /\ pc = "wait"
    /\ LET done_tasks == DoneTasks(tasks, created_tasks)
           pending_tasks == created_tasks \ done_tasks
       IN  /\ done_tasks # {}
           /\ IF AnyFailed(tasks, done_tasks)
              THEN /\ tasks' = CancelPending(tasks, pending_tasks)
                   /\ pc' = "done"
                   /\ result' = <<mirror_info.name, FALSE>>
                   /\ UNCHANGED <<created_tasks, rounds>>
              ELSE IF NonePending(pending_tasks)
              THEN /\ pc' = "done"
                   /\ result' = <<mirror_info.name, TRUE>>
                   /\ UNCHANGED <<tasks, created_tasks, rounds>>
              ELSE /\ created_tasks' = pending_tasks
                   /\ rounds' = rounds + 1
                   /\ pc' = IF WaitRaises(pending_tasks)
                            THEN "raised" ELSE "wait"
                   /\ UNCHANGED <<tasks, result>>
    /\ UNCHANGED <<mirror_info, main_config, mirror_url, urls_for_checking>>

Next ==
    \/ PrivateMirror
    \/ SelectMirrorUrl
    \/ NoRequiredProtocol
    \/ Enumerate
    \/ LaunchProbes
    \/ ProbeCompletes
    \/ ProbeCancelled
    \/ CheckTasks

Spec == Init /\ [][Next]_vars

\* the event loop runs every ready callback and every request ends within
\* its timeout
LiveSpec == Spec /\ WF_vars(CheckTasks) /\ WF_vars(ProbeCompletes)

EnumNext ==
    \/ PrivateMirror
    \/ SelectMirrorUrl
    \/ NoRequiredProtocol
    \/ Enumerate
    \/ LaunchProbes

\* mirror_available up to its first await (no request has ended yet), over
\* configurations that exercise every filter of the enumeration
EnumSpec == EnumInit /\ [][EnumNext]_vars

-----------------------------------------------------------------------------
(* Properties *)

Name == mirror_info.name

Launched == DOMAIN tasks

Candidates == DOMAIN urls_for_checking

Returned(available) == pc = "done" /\ result = <<Name, available>>

\* the protocols of the mirror's addresses that the configuration requires
HasRequiredProtocol ==
    \E i \in 1..Len(mirror_info.urls) :
        mirror_info.urls[i].protocol \in Elems(main_config.required_protocols)

\* C1: when the aggregator resumes from its wait and a probe of the waited
\* set has returned false, that same step returns (name, false) and calls
\* cancel() on every probe pending at that moment, so that no probe is
\* pending and uncancelled afterwards; it does not wait for them to finish.
C1_FailFast ==
    [][(/\ pc = "wait"
        /\ (pc' # "wait" \/ rounds' # rounds)
        /\ \E u \in created_tasks : tasks[u] = "false")
       => (/\ Returned(FALSE)'
           /\ \A u \in Launched :
                  /\ tasks[u] = "pending" => tasks'[u] = "cancelling"
                  /\ tasks'[u] # "pending")]_vars

\* five probes, the third to arrive failed: false is returned while the two
\* others are cancelled and have not finished
C1_Witness ==
    /\ Returned(FALSE)
    /\ Cardinality(Launched) = 5
    /\ Cardinality({u \in Launched : tasks[u] = "true"}) = 2
    /\ Cardinality({u \in Launched : tasks[u] = "false"}) = 1
    /\ Cardinality({u \in Launched : tasks[u] = "cancelling"}) = 2

\* C2: a non-private mirror with at least one candidate URL is reported
\* available only when every launched probe has returned true: none is
\* pending, cancelled or false.
C2_AllSuccess ==
    (~mirror_info.private /\ Candidates # {} /\ Returned(TRUE))
        => (Launched = Candidates /\ \A u \in Launched : tasks[u] = "true")

C2_Witness ==
    /\ ~mirror_info.private
    /\ Returned(TRUE)
    /\ Cardinality(Launched) = 3
    /\ rounds = 3

\* C3: a private mirror is given (name, true) and no probe task is ever
\* created for it, whatever its addresses, cloud type and configuration.
C3_PrivateNeverProbed ==
    mirror_info.private
        => (/\ Launched = {}
            /\ Candidates = {}
            /\ mirror_url = NoUrl
            /\ pc = "start" \/ Returned(TRUE))

C3_Witness ==
    /\ mirror_info.private
    /\ ~HasRequiredProtocol
    /\ mirror_info.cloud_type # ""
    /\ main_config.repos # <<>>
    /\ Returned(TRUE)

\* C4: a non-private mirror none of whose address protocols is required is
\* given (name, false) as a normal return, and no probe is launched.
C4_NoRequiredProtocol ==
    (~mirror_info.private /\ ~HasRequiredProtocol)
        => (/\ Launched = {}
            /\ pc = "start" \/ Returned(FALSE))

C4_Witness ==
    /\ ~mirror_info.private
    /\ mirror_info.urls # <<>>
    /\ ~HasRequiredProtocol
    /\ Returned(FALSE)

\* C5: a non-private mirror with a base address and no candidate URL is
\* given (name, false) as a normal return: once the enumeration is over its
\* call has returned false, it has not raised.
C5_ZeroCandidatesReturnFalse ==
    (/\ ~mirror_info.private
     /\ mirror_url # NoUrl
     /\ pc \in {"wait", "done", "raised"}
     /\ Candidates = {})
        => Returned(FALSE)

\* index of the first item of the mirror's urls whose protocol is required
FirstRequiredItem ==
    Min({i \in 1..Len(mirror_info.urls) :
            mirror_info.urls[i].protocol
                \in Elems(main_config.required_protocols)})

\* index of the first required protocol the mirror has an address for
FirstPreferredProtocol ==
    Min({j \in 1..Len(main_config.required_protocols) :
            \E i \in 1..Len(mirror_info.urls) :
                mirror_info.urls[i].protocol
                    = main_config.required_protocols[j]})

TripleUrl(t) ==
    [origin |-> mirror_url.origin,
     path   |-> mirror_url.path
                \o <<StrOf(t[1])>>
                \o [i \in 1..Len(t[2].path) |->
                       IF t[2].path[i] = "$basearch" THEN t[3]
                       ELSE t[2].path[i]]
                \o <<"repodata", "repomd.xml">>]

AllTriples ==
    Elems(main_config.versions) \X Elems(main_config.repos) \X Elems(ArchPool)

\* every filter of the enumeration but the per-mirror override
PassesConfig(t) ==
    LET version == t[1]
        repo == t[2]
        arch == t[3]
    IN  /\ version \notin DOMAIN main_config.duplicated_versions
        /\ ~(mirror_info.cloud_type # "" /\ "beta" \in Elems(version))
        /\ ~repo.vault
        /\ repo.versions = <<>> \/ version \in Elems(repo.versions)
        /\ arch \in Elems(IF repo.arches # <<>> THEN repo.arches
                          ELSE main_config.arches)
        /\ \/ version \notin DOMAIN main_config.versions_arches
           \/ arch \in Elems(main_config.versions_arches[version])

Overridden == Name \in DOMAIN WHITELIST_MIRRORS_PER_ARCH_REPO

\* the per-mirror override lists the triple's repo and arch
PassesOverride(t) ==
    /\ t[2].name \in Elems(WHITELIST_MIRRORS_PER_ARCH_REPO[Name].repos)
    /\ t[3] \in Elems(WHITELIST_MIRRORS_PER_ARCH_REPO[Name].arches)

\* C7: for a mirror of the override table every probed URL is the URL of a
\* repo and an arch that the override lists, whatever the configuration
\* permits; for any other mirror the override removes nothing: the probed
\* URLs are those of all the triples the configuration permits.
C7_OverrideSoleRestriction ==
    pc \in {"wait", "raised"}
        => IF Overridden
           THEN \A u \in Launched :
                    \E t \in AllTriples : PassesOverride(t) /\ TripleUrl(t) = u
           ELSE Launched = {TripleUrl(t) : t \in {x \in AllTriples : PassesConfig(x)}}

\* an overridden mirror is probed although the configuration also permits
\* a repo and an arch that the override does not list
C7_Witness ==
    /\ pc = "wait"
    /\ Overridden
    /\ \E t \in AllTriples :
          /\ PassesConfig(t)
          /\ t[2].name \notin Elems(WHITELIST_MIRRORS_PER_ARCH_REPO[Name].repos)
    /\ \E t \in AllTriples :
          /\ PassesConfig(t)
          /\ t[2].name \in Elems(WHITELIST_MIRRORS_PER_ARCH_REPO[Name].repos)
          /\ t[3] \notin Elems(WHITELIST_MIRRORS_PER_ARCH_REPO[Name].arches)

PassingTriples ==
    {t \in AllTriples : PassesConfig(t) /\ (Overridden => PassesOverride(t))}

\* C9: the probed URLs are exactly the URLs of the (version, repo, arch)
\* triples that pass every filter, one probe per URL.
C9_ExactCandidateSet ==
    pc \in {"wait", "raised"}
        => (/\ Launched = {TripleUrl(t) : t \in PassingTriples}
            /\ Candidates = Launched)

\* some triples are filtered out, and two passing triples share one URL
C9_Witness ==
    /\ pc = "wait"
    /\ PassingTriples # AllTriples
    /\ \E t \in AllTriples : t[1] \in DOMAIN main_config.duplicated_versions
    /\ \E t \in AllTriples : t[1] \in DOMAIN main_config.versions_arches
                              /\ ~PassesConfig(t)
    /\ Cardinality(Launched) < Cardinality(PassingTriples)
    /\ Cardinality(Launched) > 2

\* C8: the verdict is the conjunction of the probes' answers whatever the
\* order of their arrival: true is returned only when every candidate
\* answered, false only when some candidate itself failed to answer; a
\* probe is cancelled only after such a failure, so a cancellation never
\* makes the verdict false.
C8_VerdictIsConjunction ==
    /\ (~mirror_info.private /\ Launched # {} /\ Returned(TRUE))
           => \A u \in Launched : tasks[u] = "true"
    /\ (~mirror_info.private /\ Launched # {} /\ Returned(FALSE))
           => \E u \in Launched : tasks[u] = "false"
    /\ (\E u \in Launched : tasks[u] \in {"cancelling", "cancelled"})
           => (Returned(FALSE) /\ \E u \in Launched : tasks[u] = "false")
    /\ (pc = "done" /\ Launched # {})
           => (Returned(TRUE) <=> \A u \in Launched : tasks[u] = "true")

\* the failure arrived last of four: no cancellation, the verdict is false
C8_Witness ==
    /\ Returned(FALSE)
    /\ Cardinality(Launched) = 4
    /\ Cardinality({u \in Launched : tasks[u] = "true"}) = 3
    /\ Cardinality({u \in Launched : tasks[u] = "false"}) = 1
    /\ rounds = 4

\* C10: once probes are launched the call returns, provided every request
\* ends; every _check_tasks call but the first is given a strict subset of
\* the previous call's tasks, all of them still pending, and the number of
\* calls never exceeds the number of candidates.
C10_Termination ==
    /\ (pc = "wait") ~> (pc = "done")
    /\ [](Launched # {} => rounds <= Cardinality(Launched))
    /\ [][rounds' # rounds
            => (/\ \A u \in created_tasks' : tasks'[u] = "pending"
                /\ rounds # 0 => (/\ created_tasks' \subseteq created_tasks
                                  /\ created_tasks' # created_tasks
                                  /\ created_tasks' # {}))]_vars

\* as many rounds as candidates: the probes arrived one by one
C10_Witness ==
    /\ pc = "done"
    /\ Cardinality(Launched) = 4
    /\ rounds = 4

=============================================================================
